---- MODULE Spec2Model ----
(***************************************************************************)
(* printerbridge: a TCP server (TCPPrinterBridge) that forwards the bytes  *)
(* of its clients to one USB printer (USBPrinter).                         *)
(*                                                                         *)
(* The program has one thread.  start() accepts a connection and calls     *)
(* handle_client() on it; signal_handler() runs in that same thread        *)
(* between two steps, calls stop() and raises SystemExit at the point the  *)
(* thread was at.  Caller 0 is start()'s own call of ensure_is_connected   *)
(* (line 169); callers 1..MaxClients are the client handlers.              *)
(*                                                                         *)
(* An Optional value is a sequence of length at most one: <<>> is None.    *)
(***************************************************************************)
EXTENDS Integers, Sequences, FiniteSets, TLC

\* ------------------------------------------------------------- bounds
MaxClients == 2
MaxLen == 2
MaxPkt == 2
MaxSignals == 2
MaxStream == 3

\* ------------------------------------------------- program constants
RecvSize == 8192
ReadSize == 500

Bytes == {27, 64}
Probe == <<27, 64>>

None == <<>>
Dev == <<"dev">>
Sock == <<"sock">>
EpIn == <<"in">>

Callers == 0 .. MaxClients
Clients == 1 .. MaxClients

Min(a, b) == IF a < b THEN a ELSE b

SeqsUpTo(S, n) == UNION {[1 .. k -> S] : k \in 0 .. n}

\* What recv(8192) can return when it returns data.
Payloads == {d \in SeqsUpTo(Bytes, MaxLen) : Len(d) >= 1 /\ Len(d) <= RecvSize}

\* What endpoint_in.read(500, timeout) can return; <<>> is an empty read.
Responses == {r \in SeqsUpTo({0}, 2) : Len(r) <= ReadSize}

\* The device on the bus: absent, or attached with a descriptor.
\*   "unconfigured": get_active_configuration() faults
\*   "noout": no OUT endpoint; "out": OUT only; "inout": OUT and IN
UsbKinds == {"unconfigured", "noout", "out", "inout"}
Absent == [kind |-> "absent", pkt |-> 0]
Attached(k, m) == [kind |-> k, pkt |-> IF k \in {"out", "inout"} THEN m ELSE 0]

VARIABLES
    pc,              \* where the main thread is in main()/start()/cleanup()
    running,         \* TCPPrinterBridge.running
    server_socket,   \* TCPPrinterBridge.server_socket
    exitCode,        \* the process's exit status, -1 while it runs
    pendingExc,      \* the exception start()'s finally block will let through
    device,          \* USBPrinter.device
    endpoint_out,    \* USBPrinter.endpoint_out: <<wMaxPacketSize>> or None
    endpoint_in,     \* USBPrinter.endpoint_in
    usb,             \* the device on the bus
    handleLive,      \* the handle in `device` is that of the device on the bus
    cstate,          \* per client: "new", "pending", "open", "closed"
    hpc,             \* per caller: where it is in ensure_is_connected/handle_client
    wbuf,            \* per caller: the `data` argument of write()
    wsize,           \* per caller: write()'s local chunk_size
    wi,              \* per caller: write()'s loop index i
    xfers,           \* per caller: the chunks endpoint_out.write() took in this call
    response,        \* per caller: handle_client's local `response`
    cgot,            \* per client: the bytes send() put on its socket since its last recv()
    errlog,          \* logger.error was called for the client whose handler ended last
    lastXfer,        \* the caller of the last transfer to the device
    lastConnect,     \* how the last connect() ended: "none", "ok", "failed"
    prevEnd,         \* why the handler that ended last ended
    usableSince,     \* the device was usable ever since the current client was accepted
    sigCount,        \* signals delivered
    sigRunning,      \* `running` when the first signal was delivered
    sigMid,          \* the caller whose device exchange the first signal interrupted, or -1
    discCalls,       \* disconnect() calls made by cleanup()
    everConnected,   \* a connect() has returned without raising
    lastRead,        \* read() in this turn of the handler's loop: "none", "nodata", "data"
    rcvd,            \* the bytes recv() has returned on the connection being served
    fwd              \* the bytes of them endpoint_out.write() has taken

vars == <<pc, running, server_socket, exitCode, pendingExc, device, endpoint_out,
          endpoint_in, usb, handleLive, cstate, hpc, wbuf, wsize, wi, xfers,
          response, cgot, errlog, lastXfer, lastConnect, prevEnd,
          usableSince, sigCount, sigRunning, sigMid, discCalls, everConnected,
          lastRead, rcvd, fwd>>

ctlVars == <<pc, hpc, cstate, errlog, prevEnd, pendingExc, exitCode>>
srvVars == <<running, server_socket>>
sessionVars == <<device, endpoint_out, endpoint_in, lastConnect, everConnected>>
envVars == <<usb, handleLive, usableSince>>
writeVars == <<wbuf, wsize, wi, xfers, lastXfer>>
ioVars == <<response, cgot>>
sigVars == <<sigCount, sigRunning, sigMid, discCalls>>
histVars == <<lastRead, rcvd, fwd>>

Usable == usb.kind \in {"out", "inout"}

\* USBPrinter.__init__, TCPPrinterBridge.__init__ and main() up to bridge.start().
Init ==
    /\ pc = "startup"
    /\ running = FALSE
    /\ server_socket = None
    /\ exitCode = -1
    /\ pendingExc = "none"
    /\ device = None
    /\ endpoint_out = None
    /\ endpoint_in = None
    /\ usb \in {Absent} \cup {Attached(k, m) : k \in UsbKinds, m \in 1 .. MaxPkt}
    /\ handleLive = FALSE
    /\ cstate = [c \in Clients |-> "new"]
    /\ hpc = [c \in Callers |-> IF c = 0 THEN "ensure" ELSE "idle"]
    /\ wbuf = [c \in Callers |-> <<>>]
    /\ wsize = [c \in Callers |-> 0]
    /\ wi = [c \in Callers |-> 0]
    /\ xfers = [c \in Callers |-> <<>>]
    /\ response = [c \in Callers |-> <<>>]
    /\ cgot = [c \in Clients |-> <<>>]
    /\ errlog = FALSE
    /\ lastXfer = -1
    /\ lastConnect = "none"
    /\ prevEnd = "none"
    /\ usableSince = FALSE
    /\ sigCount = 0
    /\ sigRunning = FALSE
    /\ sigMid = -1
    /\ discCalls = 0
    /\ everConnected = FALSE
    /\ lastRead = "none"
    /\ rcvd = <<>>
    /\ fwd = <<>>

\* ------------------------------------------------------- control flow

\* The exception classes the program sees.  SystemExit is a BaseException.
ExceptionClasses == {"USBPrinterError", "USBError", "socket.timeout", "OSError",
                     "AttributeError"}

\* start(), lines 182-187: the except clauses of the accept loop.  Both end
\* in `continue`.  (Variant: the loop without its `except Exception` clause.)
StartCatchesOnlyTimeout(exc) == exc = "socket.timeout"
StartCatches(exc) == exc = "socket.timeout" \/ exc \in ExceptionClasses

\* start(), lines 179-181: handle_client() is called, not spawned, so the next
\* accept() is reached only when the call has returned.  (Variant: the handler
\* is started on a thread of its own and the loop goes straight back to accept().)
AcceptReadyWhileServing == pc \in {"accept", "serving"}
AcceptReady == pc = "accept"

\* main(), lines 301-309, and sys.exit(0) of line 249: the exit status of the
\* process for the exception that ends it.  (Variant: main() logs the
\* exception and returns.)
ExitStatusZero(exc) == 0
ExitStatus(exc) == IF exc = "SystemExit" THEN 0 ELSE 1

\* start(), line 169: ensure_is_connected() is called before the try of line
\* 170, so what it raises leaves start() and ends main().  (Variant: the
\* failure is swallowed and start() goes on to bind.)
AfterStartupFailureBind == "bind"
AfterStartupFailure == "exited"

\* Caller c's code is the one the thread is executing.
Active(c) == IF c = 0 THEN pc = "startup" ELSE cstate[c] = "open"

\* handle_client() returns (a break out of its loop); the with block of line
\* 179 closes the socket and the accept loop goes round.
Return(c, kind) ==
    /\ pc' = "accept"
    /\ hpc' = [hpc EXCEPT ![c] = "done"]
    /\ cstate' = [cstate EXCEPT ![c] = "closed"]
    /\ prevEnd' = kind
    /\ errlog' = FALSE
    /\ UNCHANGED <<pendingExc, exitCode>>

\* An exception of class exc leaves caller c.  For caller 0 it leaves start()
\* at line 169, outside the try, and main() (lines 307-309) exits with 1.  For
\* a client, handle_client logs and re-raises it (lines 223-225), the with
\* block closes the socket and start() catches it or not.
Raise(c, exc, kind) ==
    IF c = 0
    THEN /\ pc' = AfterStartupFailure
         /\ exitCode' = IF AfterStartupFailure = "exited" THEN ExitStatus(exc) ELSE exitCode
         /\ hpc' = [hpc EXCEPT ![0] = "done"]
         /\ UNCHANGED <<cstate, errlog, prevEnd, pendingExc>>
    ELSE /\ hpc' = [hpc EXCEPT ![c] = "done"]
         /\ cstate' = [cstate EXCEPT ![c] = "closed"]
         /\ errlog' = TRUE
         /\ prevEnd' = kind
         /\ IF StartCatches(exc)
            THEN pc' = "accept" /\ UNCHANGED pendingExc
            ELSE pc' = "cleanup" /\ pendingExc' = "Exception"
         /\ UNCHANGED exitCode

\* ensure_is_connected() returns: start() goes on to line 171, handle_client
\* to its loop.
EnsureReturns(c) ==
    /\ pc' = IF c = 0 THEN "bind" ELSE pc
    /\ hpc' = [hpc EXCEPT ![c] = IF c = 0 THEN "done" ELSE "recv"]
    /\ UNCHANGED <<cstate, errlog, prevEnd, pendingExc, exitCode>>

Goto(c, p) ==
    /\ hpc' = [hpc EXCEPT ![c] = p]
    /\ UNCHANGED <<pc, cstate, errlog, prevEnd, pendingExc, exitCode>>

\* ------------------------------------------------------ USBPrinter

\* write(), line 120: data[i : i + chunk_size], i counted from 0.  (Variant:
\* a slice that runs one byte too far.)
ChunkOffByOne(d, i, m) == SubSeq(d, i + 1, Min(i + m + 1, Len(d)))
Chunk(d, i, m) == SubSeq(d, i + 1, Min(i + m, Len(d)))

\* ensure_is_connected(), line 68: the except clause around the probe.
\* (Variant: a clause that matches no fault of the probe.)
EnsureCatchesNothing(exc) == FALSE
EnsureCatches(exc) == exc = "USBError"

\* The locals of write() and of handle_client's loop go with their frame.
ClearWrite(c) ==
    /\ wbuf' = [wbuf EXCEPT ![c] = <<>>]
    /\ wsize' = [wsize EXCEPT ![c] = 0]
    /\ wi' = [wi EXCEPT ![c] = 0]
    /\ xfers' = [xfers EXCEPT ![c] = <<>>]
    /\ UNCHANGED lastXfer

\* The connection being served is closed: its stream is over.
EndStream ==
    /\ lastRead' = "none"
    /\ rcvd' = <<>>
    /\ fwd' = <<>>

\* write(), lines 114-118: the entry of write(d) by caller c, which then
\* continues at position p.
WriteEnter(c, d, p) ==
    IF endpoint_out = None
    THEN /\ IF p = "probe" /\ EnsureCatches("USBPrinterError")
            THEN Goto(c, "e_disconnect")
            ELSE Raise(c, "USBPrinterError", "notconnected")
         /\ UNCHANGED writeVars
    ELSE /\ Goto(c, p)
         /\ wbuf' = [wbuf EXCEPT ![c] = d]
         /\ wsize' = [wsize EXCEPT ![c] = endpoint_out[1]]
         /\ wi' = [wi EXCEPT ![c] = 0]
         /\ xfers' = [xfers EXCEPT ![c] = <<>>]
         /\ UNCHANGED lastXfer

\* ensure_is_connected(), lines 61-67.
Ensure(c) ==
    /\ Active(c)
    /\ hpc[c] = "ensure"
    /\ IF device = None
       THEN Goto(c, "connect") /\ UNCHANGED writeVars
       ELSE WriteEnter(c, Probe, "probe")
    /\ UNCHANGED <<srvVars, sessionVars, envVars, ioVars, sigVars, histVars>>

\* disconnect(), lines 137-146, called with the fields d, eo, ei; `fault` says
\* whether dispose_resources raises.  The result is <<device, endpoint_out,
\* endpoint_in, dispose_resources was called, an exception leaves disconnect>>:
\* the fault is caught at line 141 and the finally block resets the fields.
\* (Variant: the fields are reset in the try block, after dispose_resources.)
disconnectNoFinally(d, eo, ei, fault) ==
    IF d # None
    THEN IF fault THEN <<d, eo, ei, TRUE, FALSE>> ELSE <<None, None, None, TRUE, FALSE>>
    ELSE <<d, eo, ei, FALSE, FALSE>>
disconnectOf(d, eo, ei, fault) ==
    IF d # None THEN <<None, None, None, TRUE, FALSE>>
    ELSE <<d, eo, ei, FALSE, FALSE>>

\* disconnect() on the session as it is.
disconnect(fault) == disconnectOf(device, endpoint_out, endpoint_in, fault)

\* ensure_is_connected(), line 69.
EnsureDisconnect(c) ==
    /\ Active(c)
    /\ hpc[c] = "e_disconnect"
    /\ \E fault \in BOOLEAN :
          /\ device' = disconnect(fault)[1]
          /\ endpoint_out' = disconnect(fault)[2]
          /\ endpoint_in' = disconnect(fault)[3]
    /\ handleLive' = FALSE
    /\ Goto(c, "connect")
    /\ UNCHANGED <<srvVars, lastConnect, everConnected, usb, usableSince, writeVars,
                   ioVars, sigVars, histVars>>

\* connect(), lines 75-105: <<device, endpoint_out, endpoint_in, raised>>.
\* line 75 assigns device before anything is checked; line 92 assigns
\* endpoint_out before line 98 checks it.
connect ==
    CASE usb.kind = "absent" -> <<None, endpoint_out, endpoint_in, TRUE>>
      [] usb.kind = "unconfigured" -> <<Dev, endpoint_out, endpoint_in, TRUE>>
      [] usb.kind = "noout" -> <<Dev, None, endpoint_in, TRUE>>
      [] usb.kind = "out" -> <<Dev, <<usb.pkt>>, None, FALSE>>
      [] OTHER -> <<Dev, <<usb.pkt>>, EpIn, FALSE>>

\* ensure_is_connected(), lines 62 and 70.
Connect(c) ==
    /\ Active(c)
    /\ hpc[c] = "connect"
    /\ device' = connect[1]
    /\ endpoint_out' = connect[2]
    /\ endpoint_in' = connect[3]
    /\ handleLive' = (usb.kind # "absent")
    /\ lastConnect' = IF connect[4] THEN "failed" ELSE "ok"
    /\ everConnected' = (everConnected \/ ~connect[4])
    /\ IF connect[4]
       THEN Raise(c, IF usb.kind = "unconfigured" THEN "USBError" ELSE "USBPrinterError",
                  "connectfail")
       ELSE EnsureReturns(c)
    /\ UNCHANGED <<srvVars, usb, usableSince, writeVars, ioVars, sigVars, histVars>>

\* write(), lines 119-121: endpoint_out.write() raises USBError.  Nothing in
\* write() catches it: the loop is left and the caller gets the exception,
\* ensure_is_connected at line 68, handle_client at line 223.  (Variant: the
\* loop skips the chunk that faulted and goes on with the next.)
OnChunkFaultContinue(c) ==
    /\ Goto(c, hpc[c])
    /\ wi' = [wi EXCEPT ![c] = @ + wsize[c]]
    /\ UNCHANGED <<wbuf, wsize, xfers, lastXfer>>
OnChunkFault(c) ==
    /\ IF hpc[c] = "probe" /\ EnsureCatches("USBError")
       THEN Goto(c, "e_disconnect")
       ELSE Raise(c, "USBError", IF hpc[c] = "probe" THEN "probefault"
                                 ELSE "writefault")
    /\ ClearWrite(c)

\* write(), lines 119-121: one turn of the loop.  endpoint_out.write() raises
\* USBError when the handle is no longer that of an attached device.
WriteChunk(c) ==
    /\ Active(c)
    /\ hpc[c] \in {"probe", "write"}
    /\ wi[c] < Len(wbuf[c])
    /\ IF endpoint_out = None
       THEN /\ IF hpc[c] = "probe" /\ EnsureCatches("AttributeError")
               THEN Goto(c, "e_disconnect")
               ELSE Raise(c, "AttributeError", "error")
            /\ ClearWrite(c)
       ELSE IF ~handleLive
       THEN OnChunkFault(c)
       ELSE /\ xfers' = [xfers EXCEPT ![c] = Append(@, Chunk(wbuf[c], wi[c], wsize[c]))]
            /\ wi' = [wi EXCEPT ![c] = @ + wsize[c]]
            /\ lastXfer' = c
            /\ Goto(c, hpc[c])
            /\ UNCHANGED <<wbuf, wsize>>
    /\ IF hpc[c] = "write"
       THEN IF hpc'[c] = "write"
            THEN fwd' = fwd \o Chunk(wbuf[c], wi[c], wsize[c]) /\ UNCHANGED <<lastRead, rcvd>>
            ELSE EndStream
       ELSE UNCHANGED histVars
    /\ UNCHANGED <<srvVars, sessionVars, envVars, ioVars, sigVars>>

\* write(), line 122, and what the caller does with True: ensure_is_connected
\* returns, handle_client goes on to read (line 216).
WriteReturn(c) ==
    /\ Active(c)
    /\ hpc[c] \in {"probe", "write"}
    /\ wi[c] >= Len(wbuf[c])
    /\ IF hpc[c] = "probe"
       THEN EnsureReturns(c) /\ ClearWrite(c)
       ELSE Goto(c, "read") /\ UNCHANGED writeVars
    /\ UNCHANGED <<srvVars, sessionVars, envVars, ioVars, sigVars, histVars>>

\* read(), lines 126-133: what read(500) can return; None and b"" are both <<>>.
ReadResults ==
    IF endpoint_in = None THEN {<<>>}
    ELSE IF ~handleLive THEN {<<>>}
    ELSE Responses

\* ------------------------------------------------- TCPPrinterBridge

\* handle_client(), lines 202-204: recv() timed out; the loop is left by break.
\* (Variant: the timeout is not caught in the loop and reaches line 223.)
OnRecvTimeoutRaises(c) == Raise(c, "socket.timeout", "timeout")
OnRecvTimeout(c) == Return(c, "timeout")

\* handle_client(), lines 199-215: the top of the loop, recv(8192) and, for
\* data, the call of write().
Recv(c) ==
    /\ Active(c)
    /\ c \in Clients
    /\ hpc[c] = "recv"
    /\ IF ~running
       THEN Return(c, "stopped") /\ UNCHANGED writeVars /\ EndStream
       ELSE \/ OnRecvTimeout(c) /\ UNCHANGED writeVars /\ EndStream
            \/ Return(c, "sockerr") /\ UNCHANGED writeVars /\ EndStream
            \/ Return(c, "eof") /\ UNCHANGED writeVars /\ EndStream
            \/ \E d \in Payloads :
                  /\ Len(rcvd) + Len(d) <= MaxStream
                  /\ WriteEnter(c, d, "write")
                  /\ IF hpc'[c] = "write"
                     THEN rcvd' = rcvd \o d /\ lastRead' = "none" /\ UNCHANGED fwd
                     ELSE EndStream
    /\ cgot' = [cgot EXCEPT ![c] = <<>>]
    /\ UNCHANGED <<srvVars, sessionVars, envVars, response, sigVars>>

\* read() returned None (lines 126-127 and 131-133) or b"": `if response` at
\* line 217 is false and the loop goes round.  (Variant: read() without its
\* try, so that the USBError of a timed-out read reaches handle_client.)
NoDataRaises(c) == Raise(c, "USBError", "readfault") /\ EndStream
NoData(c) ==
    /\ Goto(c, "recv")
    /\ lastRead' = "nodata"
    /\ UNCHANGED <<rcvd, fwd>>

\* handle_client(), lines 216-217.
Read(c) ==
    /\ Active(c)
    /\ hpc[c] = "read"
    /\ \E r \in ReadResults :
          IF r = <<>>
          THEN NoData(c) /\ ClearWrite(c) /\ UNCHANGED response
          ELSE /\ Goto(c, "send")
               /\ response' = [response EXCEPT ![c] = r]
               /\ lastRead' = "data"
               /\ UNCHANGED <<rcvd, fwd>>
               /\ UNCHANGED writeVars
    /\ UNCHANGED <<srvVars, sessionVars, envVars, cgot, sigVars>>

\* handle_client(), line 218: socket.send() takes a non-empty prefix of the
\* bytes, or fails.
Send(c) ==
    /\ Active(c)
    /\ hpc[c] = "send"
    /\ \/ \E n \in 1 .. Len(response[c]) :
             /\ cgot' = [cgot EXCEPT ![c] = SubSeq(response[c], 1, n)]
             /\ Goto(c, "recv")
             /\ UNCHANGED histVars
       \/ Raise(c, "OSError", "senderr") /\ UNCHANGED cgot /\ EndStream
    /\ response' = [response EXCEPT ![c] = <<>>]
    /\ ClearWrite(c)
    /\ UNCHANGED <<srvVars, sessionVars, envVars, sigVars>>

\* A client connects to the listening socket and waits in its backlog.
ClientConnect(c) ==
    /\ pc # "exited"
    /\ server_socket # None
    /\ cstate[c] = "new"
    /\ IF c = 1 THEN TRUE ELSE cstate[c - 1] # "new"
    /\ cstate' = [cstate EXCEPT ![c] = "pending"]
    /\ UNCHANGED <<pc, hpc, errlog, prevEnd, pendingExc, exitCode, srvVars,
                   sessionVars, envVars, writeVars, ioVars, sigVars, histVars>>

\* start(), lines 171-174.
Bind ==
    /\ pc = "bind"
    /\ \/ /\ server_socket' = Sock
          /\ running' = TRUE
          /\ pc' = "accept"
          /\ UNCHANGED pendingExc
       \/ /\ pc' = "cleanup"
          /\ pendingExc' = "Exception"
          /\ UNCHANGED srvVars
    /\ UNCHANGED <<hpc, cstate, errlog, prevEnd, exitCode, sessionVars,
                   envVars, writeVars, ioVars, sigVars, histVars>>

\* handle_client(), lines 196-199: the handler's first statement is the call of
\* ensure_is_connected(), before the loop and its first recv().  (Variant: the
\* handler goes straight to its loop.)
HandlerEntryLazy == "recv"
HandlerEntry == "ensure"

\* start(), lines 175-181: accept() returns the oldest waiting connection and
\* handle_client() is called on it.
Accept ==
    /\ AcceptReady
    /\ running
    /\ server_socket # None
    /\ \E c \in Clients :
          /\ cstate[c] = "pending"
          /\ \A b \in Clients : cstate[b] = "pending" => c <= b
          /\ cstate' = [cstate EXCEPT ![c] = "open"]
          /\ hpc' = [hpc EXCEPT ![c] = HandlerEntry]
    /\ pc' = "serving"
    /\ usableSince' = Usable
    /\ EndStream
    /\ UNCHANGED <<errlog, prevEnd, pendingExc, exitCode, srvVars,
                   sessionVars, usb, handleLive, writeVars, ioVars, sigVars>>

\* Closing the listening socket drops the connections waiting on it.
DropPending(cs) == [c \in Clients |-> IF cs[c] = "pending" THEN "closed" ELSE cs[c]]

\* cleanup(), line 240: stop(), lines 229-236.
CleanupStop ==
    /\ pc = "cleanup"
    /\ running' = FALSE
    /\ server_socket' = None
    /\ cstate' = DropPending(cstate)
    /\ pc' = "cleanup_disconnect"
    /\ UNCHANGED <<hpc, errlog, prevEnd, pendingExc, exitCode, sessionVars,
                   envVars, writeVars, ioVars, sigVars, histVars>>

\* cleanup(), lines 241-242, then the exception start() was left with goes on
\* to main(): SystemExit(0) ends the process with 0, an Exception with 1
\* (lines 307-309).
CleanupDisconnect ==
    /\ pc = "cleanup_disconnect"
    /\ \E fault \in BOOLEAN :
          /\ device' = disconnect(fault)[1]
          /\ endpoint_out' = disconnect(fault)[2]
          /\ endpoint_in' = disconnect(fault)[3]
    /\ handleLive' = FALSE
    /\ discCalls' = discCalls + 1
    /\ pc' = "exited"
    /\ exitCode' = ExitStatus(pendingExc)
    /\ UNCHANGED <<hpc, cstate, errlog, prevEnd, pendingExc, srvVars,
                   lastConnect, everConnected, usb, usableSince, writeVars, ioVars,
                   sigCount, sigRunning, sigMid, histVars>>

\* A client's handler is between two chunks of its write, or between its
\* write and the read of the response.
InExchange(c) ==
    /\ cstate[c] = "open"
    /\ \/ hpc[c] = "write" /\ 0 < wi[c] /\ wi[c] < Len(wbuf[c])
       \/ hpc[c] = "read"

\* signal_handler(), lines 245-249: stop(), then sys.exit(0) raises
\* SystemExit where the thread is.  Inside start()'s try (lines 170-187) the
\* with block closes the client socket and the finally block runs cleanup();
\* at line 169, and inside cleanup() itself, nothing catches it.
Signal ==
    /\ pc # "exited"
    /\ sigCount < MaxSignals
    /\ sigCount' = sigCount + 1
    /\ sigRunning' = IF sigCount = 0 THEN running ELSE sigRunning
    /\ sigMid' = IF sigCount = 0 /\ (\E c \in Clients : InExchange(c))
                 THEN CHOOSE c \in Clients : InExchange(c)
                 ELSE sigMid
    /\ running' = FALSE
    /\ server_socket' = None
    /\ IF pc \in {"bind", "accept", "serving"} /\ ~StartCatches("SystemExit")
       THEN pc' = "cleanup" /\ pendingExc' = "SystemExit" /\ UNCHANGED exitCode
       ELSE pc' = "exited" /\ exitCode' = ExitStatus("SystemExit") /\ UNCHANGED pendingExc
    /\ cstate' = [c \in Clients |-> IF cstate[c] \in {"open", "pending"} THEN "closed"
                                    ELSE cstate[c]]
    /\ prevEnd' = IF \E c \in Clients : cstate[c] = "open" THEN "shutdown" ELSE prevEnd
    /\ EndStream
    /\ UNCHANGED <<hpc, errlog, sessionVars, envVars, writeVars, ioVars,
                   discCalls>>

\* ---------------------------------------------------- the USB bus

\* The code still has a step to take that reads the bus: once start() is in
\* its finally block, or the process has exited, nothing does.
BusObserved == pc \in {"startup", "bind", "accept", "serving"}

Unplug ==
    /\ BusObserved
    /\ usb.kind # "absent"
    /\ usb' = Absent
    /\ handleLive' = FALSE
    /\ usableSince' = FALSE
    /\ UNCHANGED <<ctlVars, srvVars, sessionVars, writeVars, ioVars, sigVars, histVars>>

Plug(k, m) ==
    /\ BusObserved
    /\ usb.kind = "absent"
    /\ usb' = Attached(k, m)
    /\ UNCHANGED <<handleLive, usableSince, ctlVars, srvVars, sessionVars, writeVars,
                   ioVars, sigVars, histVars>>

\* -------------------------------------------------- specification

Next ==
    \/ \E c \in Callers : Ensure(c)
    \/ \E c \in Callers : EnsureDisconnect(c)
    \/ \E c \in Callers : Connect(c)
    \/ \E c \in Callers : WriteChunk(c)
    \/ \E c \in Callers : WriteReturn(c)
    \/ \E c \in Clients : Recv(c)
    \/ \E c \in Clients : Read(c)
    \/ \E c \in Clients : Send(c)
    \/ \E c \in Clients : ClientConnect(c)
    \/ Bind
    \/ Accept
    \/ CleanupStop
    \/ CleanupDisconnect
    \/ Signal
    \/ Unplug
    \/ \E k \in UsbKinds, m \in 1 .. MaxPkt : Plug(k, m)

Spec == Init /\ [][Next]_vars

\* A fault-free write() on a Connected session, for every payload of up to
\* MaxWrite bytes and every wMaxPacketSize of up to MaxPkt.
MaxWrite == 4

InitWrite ==
    /\ pc = "serving"
    /\ running = TRUE
    /\ server_socket = Sock
    /\ exitCode = -1
    /\ pendingExc = "none"
    /\ device = Dev
    /\ \E m \in 1 .. MaxPkt :
          /\ usb = Attached("out", m)
          /\ endpoint_out = <<m>>
          /\ wsize = [c \in Callers |-> IF c = 1 THEN m ELSE 0]
    /\ endpoint_in = None
    /\ handleLive = TRUE
    /\ cstate = [c \in Clients |-> IF c = 1 THEN "open" ELSE "new"]
    /\ hpc = [c \in Callers |-> IF c = 0 THEN "done" ELSE IF c = 1 THEN "write" ELSE "idle"]
    /\ \E d \in SeqsUpTo(Bytes, MaxWrite) : wbuf = [c \in Callers |-> IF c = 1 THEN d ELSE <<>>]
    /\ wi = [c \in Callers |-> 0]
    /\ xfers = [c \in Callers |-> <<>>]
    /\ response = [c \in Callers |-> <<>>]
    /\ cgot = [c \in Clients |-> <<>>]
    /\ errlog = FALSE
    /\ lastXfer = -1
    /\ lastConnect = "ok"
    /\ prevEnd = "none"
    /\ usableSince = TRUE
    /\ sigCount = 0
    /\ sigRunning = FALSE
    /\ sigMid = -1
    /\ discCalls = 0
    /\ everConnected = TRUE
    /\ lastRead = "none"
    /\ rcvd = wbuf[1]
    /\ fwd = <<>>

NextWrite ==
    \/ WriteChunk(1)
    \/ WriteReturn(1)

SpecWrite == InitWrite /\ [][NextWrite]_vars

\* ------------------------------------------------------------ claims

RECURSIVE Flatten(_)
Flatten(ss) == IF ss = <<>> THEN <<>> ELSE Head(ss) \o Flatten(Tail(ss))

OpenClients == {c \in Clients : cstate[c] = "open"}
Waiting == \E c \in Clients : cstate[c] = "pending"

\* Caller c is inside a device exchange: a write (of data or of the probe) or
\* the read that follows it.
Exchanging(c) == Active(c) /\ hpc[c] \in {"probe", "write", "read"}
MidWrite(c) ==
    Active(c) /\ hpc[c] \in {"probe", "write"} /\ 0 < wi[c] /\ wi[c] < Len(wbuf[c])

\* C1: at most one caller is inside a device exchange at any time, the probe of
\* ensure_is_connected included, and while a caller is between two chunks of
\* its write the last transfer the device took is its own.
C1_OneExchange ==
    /\ Cardinality({c \in Callers : Exchanging(c)}) <= 1
    /\ \A c \in Callers : MidWrite(c) => lastXfer = c

\* A client is between two chunks of its write while another one is connected.
C1_Witness ==
    \E c \in Clients : MidWrite(c) /\ hpc[c] = "write" /\ Waiting

ClientFaults == {"sockerr", "timeout", "writefault", "probefault", "connectfail",
                 "notconnected", "senderr", "error"}

\* Client c's handler ends in this step, and not by a signal.
HandlerEnds(c) == cstate[c] = "open" /\ cstate'[c] = "closed" /\ sigCount' = sigCount

\* C2: when a handler ends by a socket error, an idle timeout, a device write
\* fault or a failed reconnect, the accept loop goes on: the thread is back at
\* accept(), `running` is true and the listening socket is open; and at
\* accept() a waiting connection can be accepted.
C2_FaultIsolated ==
    /\ [][\A c \in Clients :
            HandlerEnds(c) /\ prevEnd' \in ClientFaults
            => pc' = "accept" /\ running' /\ server_socket' # None]_vars
    /\ [](pc = "accept" /\ running /\ Waiting => ENABLED Accept)

\* A handler has ended by a device fault and a later client is being served.
C2_Witness ==
    /\ prevEnd \in {"writefault", "connectfail"}
    /\ errlog
    /\ OpenClients # {}

\* C3: a write fault in a client's exchange closes that client's connection
\* and leaves the server accepting.  For the client served next, as long as a
\* device with an OUT endpoint has been attached since it was accepted:
\* once ensure_is_connected has returned the session holds a live handle and
\* an OUT endpoint, a completed write has put exactly the client's bytes on
\* the device, and the handler ends only for a reason on the client's side.
C3_ServedAfterWriteFault ==
    /\ [][\A c \in Clients :
            /\ (HandlerEnds(c) /\ prevEnd' = "writefault" => pc' = "accept" /\ running')
            /\ (HandlerEnds(c) /\ prevEnd = "writefault" /\ usableSince
                => prevEnd' \in {"timeout", "sockerr", "eof", "senderr"})]_vars
    /\ [](\A c \in OpenClients :
            prevEnd = "writefault" /\ usableSince
            => /\ hpc[c] \in {"recv", "write", "read", "send"}
                  => device # None /\ endpoint_out # None /\ handleLive
               /\ hpc[c] = "read" => Flatten(xfers[c]) = wbuf[c] /\ lastXfer = c)

\* The client after a write fault has had its data written, after a reconnect.
C3_Witness ==
    \E c \in OpenClients :
        /\ prevEnd = "writefault"
        /\ usableSince
        /\ hpc[c] = "read"
        /\ Flatten(xfers[c]) = wbuf[c]
        /\ lastConnect = "ok"

ConnectFails(c) == Active(c) /\ hpc[c] = "connect" /\ hpc'[c] = "done" /\ lastConnect' = "failed"

\* C5, as claimed: a connect() that fails while a client is served leaves the
\* session Disconnected (no handle, no endpoints), and the next
\* ensure_is_connected, made for a client after a failed connect(), calls
\* connect() again.
C5_Claim ==
    [][\A c \in Clients :
         /\ ConnectFails(c)
            => device' = None /\ endpoint_out' = None /\ endpoint_in' = None
         /\ Active(c) /\ hpc[c] = "ensure" /\ lastConnect = "failed" /\ hpc'[c] # "ensure"
            => hpc'[c] = "connect"]_vars

\* C6, as claimed: between operations of the session the write endpoint is set
\* exactly when the device handle is, and the read endpoint is unset whenever
\* the handle is.
C6_Claim ==
    /\ endpoint_out # None <=> device # None
    /\ device = None => endpoint_in = None

\* C7: a recv() that times out ends that client's handler by a plain return:
\* its socket is closed, the thread is back at accept() with the server
\* running and listening, no error is logged, and the device session is as it
\* was.
C7_IdleTimeout ==
    [][\A c \in Clients :
         HandlerEnds(c) /\ hpc[c] = "recv" /\ prevEnd' = "timeout"
         => /\ cstate'[c] = "closed"
            /\ pc' = "accept"
            /\ running' /\ server_socket' # None
            /\ ~errlog'
            /\ UNCHANGED <<device, endpoint_out, endpoint_in, lastConnect, handleLive>>]_vars

\* An idle client has been dropped and the server is accepting.
C7_Witness ==
    /\ prevEnd = "timeout"
    /\ pc = "accept"
    /\ running
    /\ \E c \in Clients : cstate[c] = "closed" /\ hpc[c] = "done"

\* C8, as claimed: when a signal was delivered while the server was running,
\* the process exits with the listening socket closed and after cleanup() has
\* called disconnect() exactly once.
C8_Claim ==
    pc = "exited" /\ sigRunning
    => discCalls = 1 /\ server_socket = None /\ ~running

\* C9, as claimed: a handler that a signal found inside a device exchange does
\* not stop inside it: when its connection is closed, every chunk of the
\* write has been sent and the read of the response has been made.
C9_Claim ==
    sigMid # -1 /\ cstate[sigMid] = "closed"
    => /\ ~(hpc[sigMid] = "write" /\ wi[sigMid] < Len(wbuf[sigMid]))
       /\ hpc[sigMid] # "read"

CeilDiv(n, m) == (n + m - 1) \div m

\* C10: a fault-free write(data) of n bytes with wMaxPacketSize m makes
\* ceil(n/m) transfers (none for n = 0), each of 1 to m bytes, which put
\* together in order are data; and while the write runs, what has been
\* transferred is the first i bytes of data.
C10_Chunking ==
    \A c \in Callers :
        Active(c) /\ hpc[c] \in {"write", "read"}
        => /\ \A k \in 1 .. Len(xfers[c]) :
                 Len(xfers[c][k]) >= 1 /\ Len(xfers[c][k]) <= wsize[c]
           /\ Flatten(xfers[c]) = SubSeq(wbuf[c], 1, Min(wi[c], Len(wbuf[c])))
           /\ hpc[c] = "read"
              => /\ Len(xfers[c]) = CeilDiv(Len(wbuf[c]), wsize[c])
                 /\ Flatten(xfers[c]) = wbuf[c]

\* A write has returned after several transfers, the last one a short one.
C10_Witness ==
    \E c \in Clients :
        /\ hpc[c] = "read"
        /\ Len(xfers[c]) >= 2
        /\ Len(xfers[c][Len(xfers[c])]) < wsize[c]
        /\ Flatten(xfers[c]) = wbuf[c]

\* A write of no bytes has returned without a transfer.
C10_WitnessEmpty ==
    \E c \in Clients : hpc[c] = "read" /\ wbuf[c] = <<>> /\ xfers[c] = <<>>

\* C11: from every reachable state of the session, whether or not
\* dispose_resources raises, disconnect() raises nothing and leaves no handle
\* and no endpoints; a second disconnect() right after it raises nothing,
\* changes nothing and does not call dispose_resources again.  So it is when
\* cleanup() calls disconnect() on a session that is already Disconnected.
C11_DisconnectIdempotent ==
    /\ [](\A f1, f2 \in BOOLEAN :
            LET s1 == disconnectOf(device, endpoint_out, endpoint_in, f1)
                s2 == disconnectOf(s1[1], s1[2], s1[3], f2)
            IN /\ ~s1[5] /\ ~s2[5]
               /\ s1[1] = None /\ s1[2] = None /\ s1[3] = None
               /\ s2[1] = s1[1] /\ s2[2] = s1[2] /\ s2[3] = s1[3]
               /\ ~s2[4])
    /\ [][pc = "cleanup_disconnect" /\ pc' = "exited" /\ device = None
          => UNCHANGED <<device, endpoint_out, endpoint_in>>]_vars

\* cleanup() has called disconnect() right after ensure_is_connected had:
\* the signal found a handler between its disconnect() and its connect().
C11_Witness ==
    /\ pc = "exited"
    /\ discCalls = 1
    /\ \E c \in Clients : hpc[c] = "connect"
    /\ device = None /\ endpoint_out = None /\ endpoint_in = None

\* C12: a write of a client's chunk that returns is followed by read(); when
\* read() returns bytes, the client's socket has taken exactly those bytes by
\* the time the handler is back at recv(), and the connection is still open.
C12_Claim ==
    [][\A c \in Clients :
          /\ (cstate[c] = "open" /\ hpc[c] = "write" /\ hpc'[c] \notin {"write", "done"}
                => hpc'[c] = "read")
          /\ (cstate[c] = "open" /\ hpc[c] = "read" /\ lastRead' = "data"
                => hpc'[c] = "send" /\ response'[c] # <<>>)
          /\ (cstate[c] = "open" /\ hpc[c] = "send" /\ hpc'[c] = "recv"
                => cgot'[c] = response[c] /\ cstate'[c] = "open")]_vars

\* C13: read() never raises into the handler.  Without an IN endpoint, or with
\* a device that does not answer, it returns no data: the session's handle and
\* endpoints are as before, nothing is sent to the client, nothing is logged as
\* an error, and the handler is back at recv() with the connection open.
C13_NoResponse ==
    [][\A c \in Clients :
          cstate[c] = "open" /\ hpc[c] = "read" /\ hpc'[c] # "read"
            => /\ hpc'[c] \in {"recv", "send"}
               /\ (endpoint_in = None \/ ~handleLive => hpc'[c] = "recv")
               /\ (hpc'[c] = "recv"
                     => /\ lastRead' = "nodata"
                        /\ UNCHANGED <<device, endpoint_out, endpoint_in>>
                        /\ cgot'[c] = <<>>
                        /\ cstate'[c] = "open"
                        /\ UNCHANGED <<pc, running, errlog, prevEnd>>)]_vars

\* A handler is back at recv() after a read on a session without IN endpoint.
C13_Witness ==
    \E c \in Clients :
       /\ cstate[c] = "open" /\ hpc[c] = "recv"
       /\ lastRead = "nodata"
       /\ endpoint_in = None
       /\ fwd # <<>>
       /\ cgot[c] = <<>>

\* The same after a read on an IN endpoint that returned nothing in time.
C13_WitnessTimeout ==
    \E c \in Clients :
       /\ cstate[c] = "open" /\ hpc[c] = "recv"
       /\ lastRead = "nodata"
       /\ endpoint_in # None
       /\ fwd # <<>>

C16_ExitStatus ==
    /\ pc # "exited" => exitCode = -1
    /\ pc = "exited" =>
          IF sigCount > 0
          THEN exitCode = 0
          ELSE /\ exitCode > 0
               /\ lastConnect = "failed" \/ pendingExc = "Exception"
               /\ server_socket = None
               /\ \A c \in Clients : cstate[c] = "new"

\* Exit after a signal that interrupted the handling of a client.
C16_Witness ==
    /\ pc = "exited"
    /\ sigCount > 0
    /\ exitCode = 0
    /\ discCalls = 1
    /\ prevEnd = "shutdown"

\* Exit after a failed bind, and exit after a failed first connect().
C16_WitnessBind ==
    pc = "exited" /\ sigCount = 0 /\ exitCode = 1 /\ everConnected /\ discCalls = 1

C16_WitnessConnect ==
    pc = "exited" /\ sigCount = 0 /\ exitCode = 1 /\ ~everConnected /\ discCalls = 0

\* Exit after a signal delivered during the cleanup() of a failed bind.
C16_WitnessCleanup ==
    pc = "exited" /\ sigCount > 0 /\ exitCode = 0 /\ pendingExc = "Exception"

\* C17: on the connection being served, the bytes the device has taken are a
\* prefix of the bytes received from the client's socket, in the same order
\* and unchanged: all of them whenever the handler is not inside write(), and
\* all but the part of the current chunk still to be written when it is.  A
\* step that ends the handler on a write fault transfers nothing, and the
\* chunk is not written again.
C17_InOrder ==
    /\ [](\A c \in OpenClients :
            /\ Len(fwd) <= Len(rcvd)
            /\ fwd = SubSeq(rcvd, 1, Len(fwd))
            /\ hpc[c] = "write"
                 => Len(fwd) = Len(rcvd) - Len(wbuf[c]) + Min(wi[c], Len(wbuf[c]))
            /\ hpc[c] \in {"recv", "read", "send"} => fwd = rcvd
            /\ hpc[c] \in {"ensure", "probe", "e_disconnect", "connect"} => fwd = <<>>)
    /\ [][\A c \in Clients :
            HandlerEnds(c) /\ prevEnd' = "writefault"
              => lastXfer' = lastXfer /\ fwd' = <<>> /\ hpc'[c] = "done"]_vars

\* The second chunk of a client's stream is half written: the device has
\* taken the first chunk and the first packet of the second.
C17_Witness ==
    \E c \in OpenClients :
       /\ hpc[c] = "write"
       /\ Len(rcvd) = 3
       /\ Len(wbuf[c]) = 2
       /\ wi[c] = 1
       /\ Len(fwd) = 2
       /\ rcvd[1] # rcvd[2]

\* C18: write() on a session without OUT endpoint raises "Not connected"
\* before any transfer, and ensure_is_connected does not catch it.  A fault
\* of a chunk ends the call there: no chunk is transferred in that step or
\* after it, and the caller gets the fault.  No step of write() changes the
\* session's handle or endpoints.
C18_WriteContract ==
    [][\A c \in Callers :
          /\ (Active(c) /\ hpc[c] \in {"ensure", "recv"} /\ endpoint_out = None
                /\ hpc'[c] # hpc[c]
                => /\ hpc'[c] \notin {"probe", "write"}
                   /\ (device # None => hpc'[c] = "done")
                   /\ (device # None /\ c \in Clients => prevEnd' = "notconnected" /\ errlog')
                   /\ lastXfer' = lastXfer /\ xfers'[c] = <<>>
                   /\ UNCHANGED <<device, endpoint_out, endpoint_in>>)
          /\ (Active(c) /\ hpc[c] \in {"probe", "write"}
                /\ (hpc'[c] # hpc[c] \/ wi'[c] # wi[c])
                => /\ UNCHANGED <<device, endpoint_out, endpoint_in>>
                   /\ (wi[c] < Len(wbuf[c]) /\ endpoint_out # None /\ ~handleLive
                         => /\ hpc'[c] = IF hpc[c] = "probe" THEN "e_disconnect" ELSE "done"
                            /\ lastXfer' = lastXfer
                            /\ (hpc[c] = "write" => prevEnd' = "writefault" /\ errlog')))]_vars

\* A handler has ended on the fault of a chunk after the device had taken
\* bytes on its account.
C18_Witness ==
    \E c \in Clients :
       /\ cstate[c] = "closed" /\ hpc[c] = "done"
       /\ prevEnd = "writefault"
       /\ lastXfer = c
       /\ device # None /\ endpoint_out # None

\* A handler has ended on "Not connected".
C18_WitnessNotConnected ==
    /\ prevEnd = "notconnected"
    /\ pc = "accept"
    /\ device # None /\ endpoint_out = None

\* C19, for sessions that hold an OUT endpoint whenever they hold a handle: a
\* call of ensure_is_connected makes at most one connect().  Without a
\* handle it goes straight to connect(), with no probe.  With a handle and
\* an OUT endpoint it writes the probe; a probe that is written whole ends
\* the call with the session untouched; a probe that faults is followed by
\* disconnect() and then connect(), and by nothing else.  After connect()
\* the call is over: it returns, or the failure of connect() leaves it.
C19_OneConnect ==
    [][\A c \in Callers :
          Active(c) /\ hpc'[c] # hpc[c] =>
            /\ (hpc[c] = "ensure" /\ device = None
                  => hpc'[c] = "connect" /\ lastXfer' = lastXfer)
            /\ (hpc[c] = "ensure" /\ device # None /\ endpoint_out # None
                  => hpc'[c] = "probe" /\ wbuf'[c] = Probe)
            /\ (hpc'[c] = "connect"
                  => (hpc[c] = "ensure" /\ device = None) \/ hpc[c] = "e_disconnect")
            /\ (hpc'[c] = "e_disconnect"
                  => hpc[c] = "probe" /\ wi[c] < Len(wbuf[c]) /\ ~handleLive)
            /\ (hpc[c] = "probe" /\ wi[c] < Len(wbuf[c]) /\ ~handleLive
                  => hpc'[c] = "e_disconnect")
            /\ (hpc[c] = "probe" /\ wi[c] >= Len(wbuf[c])
                  => /\ hpc'[c] = IF c = 0 THEN "done" ELSE "recv"
                     /\ UNCHANGED <<device, endpoint_out, endpoint_in, lastConnect>>)
            /\ (hpc[c] = "e_disconnect"
                  => hpc'[c] = "connect" /\ device' = None /\ UNCHANGED lastConnect)
            /\ (hpc[c] = "connect"
                  => /\ lastConnect' \in {"ok", "failed"}
                     /\ hpc'[c] = IF c # 0 /\ lastConnect' = "ok" THEN "recv" ELSE "done"
                     /\ (lastConnect' = "failed" /\ c # 0
                           => cstate'[c] = "closed" /\ prevEnd' = "connectfail" /\ errlog')
                     /\ (lastConnect' = "failed" /\ c = 0 => pc' = "exited"))]_vars

\* C19: all of the above, for every session that holds a handle: the call
\* enters the probe write, and when write() raises at once it goes on to
\* disconnect() and connect().
C19_Claim ==
    /\ C19_OneConnect
    /\ [][\A c \in Callers :
            Active(c) /\ hpc[c] = "ensure" /\ hpc'[c] # "ensure" /\ device # None
              => hpc'[c] \in {"probe", "e_disconnect"}]_vars

\* The connect() of a client's ensure_is_connected has failed on a session
\* that had been connected before; the handler has ended and the server is
\* back at accept().
C19_Witness ==
    /\ prevEnd = "connectfail"
    /\ lastConnect = "failed"
    /\ everConnected
    /\ pc = "accept"
    /\ usb.kind = "absent"
    /\ device = None

\* C20: the listening socket is bound only after the ensure_is_connected of
\* startup has returned with a connected session.  Whenever the socket is
\* open, and whenever any client has connected, a connect() has succeeded
\* before.  When the first connect() fails, the process ends with no socket
\* ever bound and no client ever accepted.
C20_ListenAfterConnect ==
    /\ pc = "bind" => everConnected /\ device # None /\ endpoint_out # None /\ hpc[0] = "done"
    /\ server_socket # None => everConnected /\ hpc[0] = "done" /\ pc \in {"accept", "serving"}
    /\ (\E c \in Clients : cstate[c] # "new") => everConnected
    /\ ~everConnected /\ lastConnect = "failed"
         => /\ pc = "exited" /\ exitCode = 1
            /\ server_socket = None /\ ~running
            /\ \A c \in Clients : cstate[c] = "new"

\* The server is listening and has served a client; the device it connected
\* to at startup is no longer on the bus.
C20_Witness ==
    /\ server_socket # None
    /\ pc = "accept"
    /\ everConnected
    /\ usb.kind = "absent"
    /\ \E c \in Clients : cstate[c] = "closed"

\* The first connect() has failed.
C20_WitnessFailed ==
    /\ ~everConnected
    /\ lastConnect = "failed"
    /\ pc = "exited"
    /\ server_socket = None

====
